---- MODULE Spec2Model ----
(***************************************************************************)
(* A model of the receipt field-extraction engine:                         *)
(*   src/utils/ml_classifier.py  (layout, amount pools, total/VAT          *)
(*                                resolution, the aggregator)              *)
(*   src/utils/extractors.py     (date and PIN regex cascades)             *)
(* Texts are strings; a character is a string of length one.  Amounts are  *)
(* exact decimals (see Dec); a y_position is an exact fraction (see YPos). *)
(***************************************************************************)
EXTENDS Integers, Sequences, FiniteSets, TLC

VARIABLES
    op,    \* which operation this behaviour exercises
    arg,   \* the operation's input (json_data, full_text or text)
    pc,    \* "call" before the operation has run, "done" after
    out    \* what the operation left, once pc = "done" (see Outcome)

vars == <<op, arg, pc, out>>

\* the parts of out: exc is TRUE iff an exception escaped to the caller, val
\* is the value returned; layout and full_text are the locals layout_data
\* and full_text of predict_all_fields as it built them
Outcome(exc, val, layout_data, full_text) ==
    [exc |-> exc, val |-> val, layout |-> layout_data, full_text |-> full_text]
raised == out.exc
ret == out.val
layout == out.layout
fulltext == out.full_text

\* Python's None, and a present value v: an optional value is << >> or << v >>
None == <<>>
Some(v) == <<v>>

\* `x = v` followed by code F(x) that uses x
With(v, F(_)) == F(v)

(***************************************************************************)
(* Characters and the str methods the code uses                            *)
(***************************************************************************)
Digits == {"0", "1", "2", "3", "4", "5", "6", "7", "8", "9"}
UpperSeq == <<"A","B","C","D","E","F","G","H","I","J","K","L","M",
              "N","O","P","Q","R","S","T","U","V","W","X","Y","Z">>
LowerSeq == <<"a","b","c","d","e","f","g","h","i","j","k","l","m",
              "n","o","p","q","r","s","t","u","v","w","x","y","z">>
Uppers == {UpperSeq[i] : i \in 1..26}
Lowers == {LowerSeq[i] : i \in 1..26}
Letters == Uppers \cup Lowers
\* \s , \w
Spaces == {" ", "\t", "\n"}
WordChars == Letters \cup Digits \cup {"_"}

\* s[i-1] in Python: the i-th character (1-based)
Ch(s, i) == SubSeq(s, i, i)

\* str.upper() on one character
UpperCh(c) ==
    IF c \in Lowers THEN UpperSeq[CHOOSE i \in 1..26 : LowerSeq[i] = c] ELSE c

RECURSIVE UpperFrom(_, _)
UpperFrom(s, i) ==
    IF i > Len(s) THEN "" ELSE UpperCh(Ch(s, i)) \o UpperFrom(s, i + 1)

\* str.upper()
Upper(s) == UpperFrom(s, 1)

RECURSIVE FirstNonSpace(_, _)
FirstNonSpace(s, i) ==
    IF i > Len(s) \/ Ch(s, i) \notin Spaces THEN i ELSE FirstNonSpace(s, i + 1)

RECURSIVE LastNonSpace(_, _)
LastNonSpace(s, i) ==
    IF i < 1 \/ Ch(s, i) \notin Spaces THEN i ELSE LastNonSpace(s, i - 1)

\* str.strip()
Strip(s) == SubSeq(s, FirstNonSpace(s, 1), LastNonSpace(s, Len(s)))

\* `sub in s`
Contains(s, sub) ==
    \E i \in 1..(Len(s) - Len(sub) + 1) : SubSeq(s, i, i + Len(sub) - 1) = sub

RECURSIVE Join(_, _, _)
\* sep.join(xs[i:]) for a sequence of strings xs
Join(sep, xs, i) ==
    IF i > Len(xs) THEN ""
    ELSE IF i = Len(xs) THEN xs[i]
    ELSE xs[i] \o sep \o Join(sep, xs, i + 1)

RECURSIVE KeepOnly(_, _, _)
\* re.sub('[^...]', '', s): keep the characters of cs, drop the others
KeepOnly(s, cs, i) ==
    IF i > Len(s) THEN ""
    ELSE (IF Ch(s, i) \in cs THEN Ch(s, i) ELSE "") \o KeepOnly(s, cs, i + 1)

RECURSIVE DropChars(_, _, _)
\* re.sub('[...]', '', s): drop the characters of cs, keep the others
DropChars(s, cs, i) ==
    IF i > Len(s) THEN ""
    ELSE (IF Ch(s, i) \in cs THEN "" ELSE Ch(s, i)) \o DropChars(s, cs, i + 1)

(***************************************************************************)
(* re: a backtracking matcher for the patterns of the source.  A pattern   *)
(* is a sequence of items; an item is a greedy repetition cs{lo,hi} of a   *)
(* character set, or a zero-width assertion.                               *)
(***************************************************************************)
Rep(cs, lo, hi) == [k |-> "set", cs |-> cs, lo |-> lo, hi |-> hi]
One(cs) == Rep(cs, 1, 1)
\* \b , (?<!\w) , (?!\w)
WordB == [k |-> "wb", cs |-> {}, lo |-> 0, hi |-> 0]
NotAfterWord == [k |-> "nlb", cs |-> {}, lo |-> 0, hi |-> 0]
NotBeforeWord == [k |-> "nla", cs |-> {}, lo |-> 0, hi |-> 0]
\* an unbounded repetition: longer than any text of the model
Inf == 1000

\* a literal letter under re.IGNORECASE
AnyCase(c) == One({c, UpperCh(c)} \cup
                  {LowerSeq[i] : i \in {j \in 1..26 : UpperSeq[j] = c}})

IsWordAt(s, i) == i >= 1 /\ i <= Len(s) /\ Ch(s, i) \in WordChars

\* a zero-width assertion at position pos
Holds(kind, s, pos) ==
    With(<<IsWordAt(s, pos - 1), IsWordAt(s, pos)>>, LAMBDA w :
        CASE kind = "wb"  -> w[1] # w[2]
          [] kind = "nlb" -> ~w[1]
          [] kind = "nla" -> ~w[2])

RECURSIVE RunLen(_, _, _, _)
\* how many characters of cs follow from position pos, at most hi
RunLen(s, pos, cs, hi) ==
    IF hi = 0 \/ pos > Len(s) \/ Ch(s, pos) \notin cs THEN 0
    ELSE 1 + RunLen(s, pos + 1, cs, hi - 1)

RECURSIVE Match(_, _, _, _)
RECURSIVE TryCount(_, _, _, _, _)
\* match items k.. of pat at position pos: << start of item k, ..., start of
\* the last item, end of the match >>, or << >> when there is no match
Match(pat, k, s, pos) ==
    IF k > Len(pat) THEN <<pos>>
    ELSE IF pat[k].k = "set"
         THEN With(RunLen(s, pos, pat[k].cs, pat[k].hi), LAMBDA run :
                  IF run < pat[k].lo THEN <<>> ELSE TryCount(pat, k, s, pos, run))
    ELSE IF Holds(pat[k].k, s, pos)
         THEN With(Match(pat, k + 1, s, pos), LAMBDA r :
                  IF r = <<>> THEN <<>> ELSE <<pos>> \o r)
    ELSE <<>>

\* greedy: item k takes n characters, then fewer, down to its minimum
TryCount(pat, k, s, pos, n) ==
    With(Match(pat, k + 1, s, pos + n), LAMBDA r :
        IF r # <<>> THEN <<pos>> \o r
        ELSE IF n > pat[k].lo THEN TryCount(pat, k, s, pos, n - 1)
        ELSE <<>>)

RECURSIVE Collect(_, _, _, _, _)
\* at[p] is the match at position p.  The captured strings of the leftmost
\* match at or after start, and of those that follow where it ends.
Collect(at, g1, g2, s, start) ==
    With({p \in start..Len(s) : at[p] # <<>>}, LAMBDA found :
        IF found = {} THEN <<>>
        ELSE With(at[CHOOSE p \in found : \A q \in found : p <= q], LAMBDA m :
                 <<SubSeq(s, m[g1], m[g2 + 1] - 1)>> \o
                 Collect(at, g1, g2, s,
                         IF m[Len(m)] > m[1] THEN m[Len(m)] ELSE m[1] + 1)))

\* re.findall(pat, s) with one capturing group spanning items g1..g2:
\* the captured strings of the non-overlapping matches, left to right
FindAll(pat, g1, g2, s) ==
    Collect([p \in 1..Len(s) |-> Match(pat, 1, s, p)], g1, g2, s, 1)

\* re.match('^...$', s): the whole string matches
FullMatch(pat, s) ==
    With(Match(pat, 1, s, 1), LAMBDA m : m # <<>> /\ m[Len(pat) + 1] = Len(s) + 1)

(***************************************************************************)
(* Numbers.  float(cleaned) is modelled exactly, as a decimal: Dec(i, f, e) *)
(* stands for i + f / 10^e with 0 <= f < 10^e and e as small as possible,   *)
(* so equal values are equal records.                                       *)
(***************************************************************************)
DigitSeq == <<"0", "1", "2", "3", "4", "5", "6", "7", "8", "9">>
DigitVal(c) == (CHOOSE i \in 1..10 : DigitSeq[i] = c) - 1

RECURSIVE Pow10(_)
Pow10(e) == IF e = 0 THEN 1 ELSE 10 * Pow10(e - 1)

RECURSIVE Dec(_, _, _)
Dec(i, f, e) == IF e > 0 /\ f % 10 = 0 THEN Dec(i, f \div 10, e - 1)
                ELSE [i |-> i, f |-> f, e |-> e]
DecInt(k) == [i |-> k, f |-> 0, e |-> 0]
DecIsZero(a) == a.i = 0 /\ a.f = 0

\* a <= b on decimals
DecLeq(a, b) ==
    a.i < b.i \/ (a.i = b.i /\ a.f * Pow10(b.e) <= b.f * Pow10(a.e))

RECURSIVE DigitsToInt(_, _, _)
\* the integer a string of digits denotes (acc: the value read so far)
DigitsToInt(s, i, acc) ==
    IF i > Len(s) THEN acc ELSE DigitsToInt(s, i + 1, 10 * acc + DigitVal(Ch(s, i)))

RECURSIVE IndexOf(_, _, _)
\* the first position >= i of character c in s, or 0
IndexOf(s, c, i) ==
    IF i > Len(s) THEN 0 ELSE IF Ch(s, i) = c THEN i ELSE IndexOf(s, c, i + 1)

RECURSIVE LastIndexOf(_, _, _)
\* the last position <= i of character c in s, or 0
LastIndexOf(s, c, i) ==
    IF i < 1 THEN 0 ELSE IF Ch(s, i) = c THEN i ELSE LastIndexOf(s, c, i - 1)

\* float(s) for s made of digits and at most one period, not empty and not
\* a lone period: the forms "12", "12.50", ".5", "12."
ParseFloat(s) ==
    With(IndexOf(s, ".", 1), LAMBDA dot :
        IF dot = 0 THEN Dec(DigitsToInt(s, 1, 0), 0, 0)
        ELSE Dec(DigitsToInt(SubSeq(s, 1, dot - 1), 1, 0),
                 DigitsToInt(SubSeq(s, dot + 1, Len(s)), 1, 0), Len(s) - dot))

RECURSIVE RStrip(_, _)
\* s.rstrip(c)
RStrip(s, c) ==
    IF Len(s) > 0 /\ Ch(s, Len(s)) = c THEN RStrip(SubSeq(s, 1, Len(s) - 1), c) ELSE s

(***************************************************************************)
(* ml_classifier.py: clean_amount and the two candidate pools              *)
(***************************************************************************)
MinAmount == 1
MaxAmount == 5000000
GeneralFloor == 10
TaxFloor == 1

\* cleaned.split('.') and, with more than two parts, ''.join(parts[:-1]) +
\* '.' + parts[-1]: the periods before the last one are dropped
JoinParts(cleaned) ==
    With(LastIndexOf(cleaned, ".", Len(cleaned)), LAMBDA last :
        IF last = 0 THEN cleaned
        ELSE KeepOnly(SubSeq(cleaned, 1, last - 1), Digits, 1)
             \o SubSeq(cleaned, last, Len(cleaned)))

\* a faulty range test: the two ends are left out
InRange_exclusive(val) ==
    ~DecLeq(val, DecInt(MinAmount)) /\ ~DecLeq(DecInt(MaxAmount), val)

\* `if val and 1 <= val <= 5000000`
InRange(val) ==
    ~DecIsZero(val) /\ DecLeq(DecInt(MinAmount), val) /\ DecLeq(val, DecInt(MaxAmount))

\* clean_amount(text): None or Some(decimal)
clean_amount(text) ==
    IF text = "" THEN None
    ELSE With(RStrip(JoinParts(KeepOnly(KeepOnly(text, Digits \cup {",", "."}, 1),
                                        Digits \cup {"."}, 1)), "."),
              LAMBDA cleaned :
                  IF cleaned = "" THEN None
                  ELSE With(ParseFloat(cleaned), LAMBDA val :
                           IF InRange(val) THEN Some(val) ELSE None))

\* r'\b\d+\.\d{2}\b' , r'\b\d{3,}\b' , r'\b\d{2,}\b'
DecimalPattern == <<WordB, Rep(Digits, 1, Inf), One({"."}), Rep(Digits, 2, 2), WordB>>
IntPattern(mindigits) == <<WordB, Rep(Digits, mindigits, Inf), WordB>>

RECURSIVE CandidatesOf(_, _, _, _)
\* the inner loop: one candidate per match whose cleaned value is >= floor
CandidatesOf(line, matches, floor, i) ==
    IF i > Len(matches) THEN <<>>
    ELSE With(clean_amount(matches[i]), LAMBDA amount :
             IF amount # None /\ DecLeq(DecInt(floor), amount[1])
             THEN <<[amount |-> amount[1], text |-> line.text,
                     y_pos |-> line.y_pos, poly |-> line.poly]>>
             ELSE <<>>) \o CandidatesOf(line, matches, floor, i + 1)

RECURSIVE PoolFrom(_, _, _, _)
\* the outer loops: lines in order, per line the decimal pattern first,
\* then the integer pattern
PoolFrom(layout_data, mindigits, floor, i) ==
    IF i > Len(layout_data) THEN <<>>
    ELSE With(<<FindAll(DecimalPattern, 1, 5, layout_data[i].text),
                FindAll(IntPattern(mindigits), 1, 3, layout_data[i].text)>>,
              LAMBDA matches :
                  CandidatesOf(layout_data[i], matches[1] \o matches[2], floor, 1))
         \o PoolFrom(layout_data, mindigits, floor, i + 1)

extract_all_amounts(layout_data) == PoolFrom(layout_data, 3, GeneralFloor, 1)
extract_all_tax_amounts(layout_data) == PoolFrom(layout_data, 2, TaxFloor, 1)

(***************************************************************************)
(* ml_classifier.py: the layout.  A polygon is a sequence of points, a     *)
(* point a sequence of coordinates << x, y >>.  YPos(s, n) stands for the  *)
(* mean s / n of n y-coordinates; comparisons cross-multiply.              *)
(***************************************************************************)
YTolerance == 5

YPos(s, n) == [s |-> s, n |-> n]
YLess(a, b) == a.s * b.n < b.s * a.n
Abs(x) == IF x < 0 THEN -x ELSE x
\* abs(a - b) < 5
YNear(a, b) == Abs(a.s * b.n - b.s * a.n) < YTolerance * a.n * b.n
\* a > m / 2
YBelowHalf(a, m) == 2 * a.s * m.n > m.s * a.n

RECURSIVE SumY(_, _)
SumY(poly, i) == IF i > Len(poly) THEN 0 ELSE poly[i][2] + SumY(poly, i + 1)

\* normalize_y(poly), for a non-empty polygon of well-formed points
normalize_y(poly) == YPos(SumY(poly, 1), Len(poly))

\* p[1] raises IndexError on a point with fewer than two coordinates
normalize_y_raises(poly) == \E i \in 1..Len(poly) : Len(poly[i]) < 2

\* a faulty, unstable sort: an element goes before the elements already
\* placed that have its key
InsertByY_before_equals(sorted, x) ==
    LET k == Cardinality({i \in 1..Len(sorted) : YLess(sorted[i].y_pos, x.y_pos)})
    IN  SubSeq(sorted, 1, k) \o <<x>> \o SubSeq(sorted, k + 1, Len(sorted))

\* list.sort(key=...) is stable: an element goes after every element already
\* placed whose key is not greater than its own
InsertByY(sorted, x) ==
    LET k == Cardinality({i \in 1..Len(sorted) : ~YLess(x.y_pos, sorted[i].y_pos)})
    IN  SubSeq(sorted, 1, k) \o <<x>> \o SubSeq(sorted, k + 1, Len(sorted))

RECURSIVE SortFrom(_, _, _)
SortFrom(xs, i, sorted) ==
    IF i > Len(xs) THEN sorted ELSE SortFrom(xs, i + 1, InsertByY(sorted, xs[i]))

\* layout_data.sort(key=lambda x: x[2])
SortByY(xs) == SortFrom(xs, 1, <<>>)

Min(a, b) == IF a < b THEN a ELSE b

\* `if txt and poly`: the pair is kept
Kept(txt, poly) == txt # "" /\ poly # <<>>

RECURSIVE ZipLayout(_, _, _)
\* the loop over zip(texts, polys), before the sort
ZipLayout(texts, polys, i) ==
    IF i > Min(Len(texts), Len(polys)) THEN <<>>
    ELSE (IF Kept(texts[i], polys[i])
          THEN <<[text |-> Strip(texts[i]), poly |-> polys[i],
                  y_pos |-> normalize_y(polys[i])]>>
          ELSE <<>>) \o ZipLayout(texts, polys, i + 1)

\* the loop raises iff normalize_y raises on a kept pair
ZipLayoutRaises(texts, polys) ==
    \E i \in 1..Min(Len(texts), Len(polys)) :
        Kept(texts[i], polys[i]) /\ normalize_y_raises(polys[i])

RECURSIVE Texts(_, _)
Texts(layout_data, i) ==
    IF i > Len(layout_data) THEN <<>>
    ELSE <<layout_data[i].text>> \o Texts(layout_data, i + 1)

\* " ".join(txt for txt, _, _ in layout_data)
FullText(layout_data) == Join(" ", Texts(layout_data, 1), 1)

(***************************************************************************)
(* ml_classifier.py: keyword resolution of the total and the VAT           *)
(***************************************************************************)
total_keywords == <<"TOTAL", "AMOUNT DUE", "AMOUNT PAYABLE", "GRAND TOTAL", "BALANCE", "TOT">>
vat_keywords == <<"VAT", "TAX", "GST">>

\* any(keyword in text_upper for keyword in keywords)
HasKeyword(text, keywords) ==
    With(Upper(text), LAMBDA text_upper :
        \E k \in 1..Len(keywords) : Contains(text_upper, keywords[k]))

\* [amt for amt in pool if abs(amt['y_pos'] - y) < 5]
NearAmounts(pool, y) ==
    LET near(amt) == YNear(amt.y_pos, y) IN SelectSeq(pool, near)

\* max(amounts, key=lambda x: x['amount'])['amount'], amounts not empty
MaxAmountOf(amounts) ==
    CHOOSE a \in {amounts[i].amount : i \in 1..Len(amounts)} :
        \A j \in 1..Len(amounts) : DecLeq(amounts[j].amount, a)

\* the amount the loop body returns at a keyword line i, or None: the
\* largest amount near line i and, failing that, near line i + 1
near_keyword_line(layout_data, pool, i) ==
    With(NearAmounts(pool, layout_data[i].y_pos), LAMBDA line_amounts :
        IF line_amounts # <<>> THEN Some(MaxAmountOf(line_amounts))
        ELSE IF i + 1 <= Len(layout_data)
             THEN With(NearAmounts(pool, layout_data[i + 1].y_pos), LAMBDA next_amounts :
                      IF next_amounts # <<>> THEN Some(MaxAmountOf(next_amounts))
                      ELSE None)
             ELSE None)

RECURSIVE keyword_scan_first_hit(_, _, _, _)
\* a faulty loop: it gives up at the first keyword line, resolved or not
keyword_scan_first_hit(layout_data, keywords, pool, i) ==
    IF i > Len(layout_data) THEN None
    ELSE IF HasKeyword(layout_data[i].text, keywords)
         THEN near_keyword_line(layout_data, pool, i)
         ELSE keyword_scan_first_hit(layout_data, keywords, pool, i + 1)

RECURSIVE keyword_scan(_, _, _, _)
\* the for loop of both resolvers from line i on: Some(amount) when it
\* returns, None when it runs to its end
keyword_scan(layout_data, keywords, pool, i) ==
    IF i > Len(layout_data) THEN None
    ELSE IF HasKeyword(layout_data[i].text, keywords)
         THEN With(near_keyword_line(layout_data, pool, i), LAMBDA found :
                  IF found # None THEN found
                  ELSE keyword_scan(layout_data, keywords, pool, i + 1))
         ELSE keyword_scan(layout_data, keywords, pool, i + 1)

\* max(amt['y_pos'] for amt in all_amounts), all_amounts not empty
MaxYOf(amounts) ==
    CHOOSE y \in {amounts[i].y_pos : i \in 1..Len(amounts)} :
        \A j \in 1..Len(amounts) : ~YLess(y, amounts[j].y_pos)

\* [amt for amt in all_amounts if amt['y_pos'] > max_y / 2]
BottomAmounts(all_amounts) ==
    With(MaxYOf(all_amounts), LAMBDA max_y :
        LET bottom(amt) == YBelowHalf(amt.y_pos, max_y)
        IN  SelectSeq(all_amounts, bottom))

\* a faulty fallback: the largest amount of the whole pool, top half included
total_fallback_whole_pool(all_amounts) == Some(MaxAmountOf(all_amounts))

\* the fallbacks of extract_total_with_regex, all_amounts not empty
total_fallback(all_amounts) ==
    With(BottomAmounts(all_amounts), LAMBDA bottom_amounts :
        IF bottom_amounts # <<>> THEN Some(MaxAmountOf(bottom_amounts))
        ELSE Some(MaxAmountOf(all_amounts)))

extract_total_with_regex(layout_data, full_text) ==
    With(extract_all_amounts(layout_data), LAMBDA all_amounts :
        IF all_amounts = <<>> THEN None
        ELSE With(keyword_scan(layout_data, total_keywords, all_amounts, 1),
                  LAMBDA found :
                      IF found # None THEN found ELSE total_fallback(all_amounts)))

\* a faulty VAT resolver: it falls back on position as the total does
extract_vat_with_fallback(layout_data, full_text, all_amounts) ==
    With(extract_all_tax_amounts(layout_data), LAMBDA all_tax_amounts :
        IF all_tax_amounts = <<>> THEN None
        ELSE With(keyword_scan(layout_data, vat_keywords, all_tax_amounts, 1),
                  LAMBDA found :
                      IF found # None THEN found ELSE total_fallback(all_tax_amounts)))

extract_vat_with_regex(layout_data, full_text, all_amounts) ==
    With(extract_all_tax_amounts(layout_data), LAMBDA all_tax_amounts :
        IF all_tax_amounts = <<>> THEN None
        ELSE keyword_scan(layout_data, vat_keywords, all_tax_amounts, 1))

(***************************************************************************)
(* extractors.py: the date cascade.  datetime.strptime is modelled by its  *)
(* directives: %Y is four digits, %m and %d take two digits when they can  *)
(* and one otherwise, %b and %B are the English month names (any case),    *)
(* white space in the format is one or more white-space characters, and    *)
(* the whole string must be consumed.                                      *)
(***************************************************************************)
YearMin == 2020
YearMax == 2030

DateSeps == {"-", "/", "."}
date_patterns == <<
    <<Rep(Digits, 4, 4), One(DateSeps), Rep(Digits, 2, 2), One(DateSeps), Rep(Digits, 2, 2)>>,
    <<Rep(Digits, 2, 2), One(DateSeps), Rep(Digits, 2, 2), One(DateSeps), Rep(Digits, 4, 4)>>,
    <<Rep(Digits, 2, 2), Rep(Spaces, 0, Inf), Rep(Letters, 3, 9), Rep(Spaces, 0, Inf),
      Rep(Digits, 4, 4)>>,
    <<Rep(Letters, 3, 9), Rep(Spaces, 0, Inf), Rep(Digits, 2, 2), Rep({","}, 0, 1),
      Rep(Spaces, 0, Inf), Rep(Digits, 4, 4)>>,
    <<Rep(Digits, 1, 2), One({"-", "/"}), Rep(Digits, 1, 2), One({"-", "/"}),
      Rep(Digits, 2, 4)>> >>

\* a format is its sequence of directives and literal characters
manual_formats == <<
    <<"%Y", "-", "%m", "-", "%d">>, <<"%Y", "/", "%m", "/", "%d">>, <<"%Y", ".", "%m", ".", "%d">>,
    <<"%d", "-", "%m", "-", "%Y">>, <<"%d", "/", "%m", "/", "%Y">>, <<"%d", ".", "%m", ".", "%Y">>,
    <<"%m", "-", "%d", "-", "%Y">>, <<"%m", "/", "%d", "/", "%Y">>, <<"%m", ".", "%d", ".", "%Y">>,
    <<"%d", " ", "%b", " ", "%Y">>, <<"%d", " ", "%B", " ", "%Y">>,
    <<"%b", " ", "%d", " ", "%Y">>, <<"%B", " ", "%d", " ", "%Y">> >>

MonthNames == <<"JANUARY", "FEBRUARY", "MARCH", "APRIL", "MAY", "JUNE", "JULY",
                "AUGUST", "SEPTEMBER", "OCTOBER", "NOVEMBER", "DECEMBER">>
MonthAbbrs == <<"JAN", "FEB", "MAR", "APR", "MAY", "JUN", "JUL", "AUG", "SEP",
                "OCT", "NOV", "DEC">>

\* the digits at pos..pos+n-1 as a number, or -1 when they are not n digits
NumAt(s, pos, n) ==
    IF pos + n - 1 <= Len(s) /\ \A i \in pos..(pos + n - 1) : Ch(s, i) \in Digits
    THEN DigitsToInt(SubSeq(s, pos, pos + n - 1), 1, 0) ELSE -1

\* a directive's match: len characters taken (0: no match), v its value
Took(len, v) == [len |-> len, v |-> v]

\* %m and %d: two digits of 01..hi when they are there, else one digit of
\* 1..9 (for %d also a space and one digit)
NumField(d, s, pos, hi) ==
    With(<<NumAt(s, pos, 2), NumAt(s, pos, 1)>>, LAMBDA n :
        IF n[1] >= 1 /\ n[1] <= hi THEN Took(2, n[1])
        ELSE IF n[2] >= 1 THEN Took(1, n[2])
        ELSE IF d = "%d" /\ pos <= Len(s) /\ Ch(s, pos) = " " /\ NumAt(s, pos + 1, 1) >= 1
             THEN Took(2, NumAt(s, pos + 1, 1))
        ELSE Took(0, 0))

\* %b and %B: a month name, in any case
NameField(names, s, pos) ==
    With({m \in 1..12 : /\ pos + Len(names[m]) - 1 <= Len(s)
                        /\ Upper(SubSeq(s, pos, pos + Len(names[m]) - 1)) = names[m]},
         LAMBDA hits :
             IF hits = {} THEN Took(0, 0)
             ELSE With(CHOOSE m \in hits : TRUE, LAMBDA m : Took(Len(names[m]), m)))

\* one directive at pos
Field(d, s, pos) ==
    CASE d = "%Y" -> With(NumAt(s, pos, 4), LAMBDA y :
                         IF y >= 0 THEN Took(4, y) ELSE Took(0, 0))
      [] d = "%m" -> NumField(d, s, pos, 12)
      [] d = "%d" -> NumField(d, s, pos, 31)
      [] d = "%b" -> NameField(MonthAbbrs, s, pos)
      [] d = "%B" -> NameField(MonthNames, s, pos)

\* the value a directive sets: %b and %B set the month, as %m does
FieldKey(d) == IF d \in {"%b", "%B"} THEN "%m" ELSE d

RECURSIVE Strp(_, _, _, _, _)
\* the format's items k.. against s from pos; got maps the directives read
\* so far to their values.  << >> when the string does not match.
Strp(fmt, k, s, pos, got) ==
    IF k > Len(fmt) THEN (IF pos = Len(s) + 1 THEN <<got>> ELSE <<>>)
    ELSE IF fmt[k] = " "
         THEN With(RunLen(s, pos, Spaces, Inf), LAMBDA n :
                  IF n = 0 THEN <<>> ELSE Strp(fmt, k + 1, s, pos + n, got))
    ELSE IF Len(fmt[k]) = 1
         THEN IF pos <= Len(s) /\ Ch(s, pos) = fmt[k]
              THEN Strp(fmt, k + 1, s, pos + 1, got) ELSE <<>>
    ELSE With(Field(fmt[k], s, pos), LAMBDA f :
             IF f.len = 0 THEN <<>>
             ELSE Strp(fmt, k + 1, s, pos + f.len, [got EXCEPT ![FieldKey(fmt[k])] = f.v]))

IsLeap(y) == (y % 4 = 0 /\ y % 100 # 0) \/ y % 400 = 0
DaysInMonth(y, m) ==
    IF m = 2 THEN (IF IsLeap(y) THEN 29 ELSE 28)
    ELSE IF m \in {4, 6, 9, 11} THEN 30 ELSE 31

\* datetime(year, month, day) exists
IsDate(y, m, d) == y >= 1 /\ d <= DaysInMonth(y, m)

\* datetime.strptime(s, fmt): Some([year, month, day]), or None for ValueError
strptime(s, fmt) ==
    With(Strp(fmt, 1, s, 1, [x \in {"%Y", "%m", "%d"} |-> 0]), LAMBDA r :
        IF r # <<>> /\ IsDate(r[1]["%Y"], r[1]["%m"], r[1]["%d"])
        THEN Some([year |-> r[1]["%Y"], month |-> r[1]["%m"], day |-> r[1]["%d"]])
        ELSE None)

RECURSIVE Pad(_, _)
\* n in decimal, zero-padded to w digits
Pad(n, w) == IF w = 0 THEN "" ELSE Pad(n \div 10, w - 1) \o DigitSeq[(n % 10) + 1]

\* parsed_date.strftime("%Y-%m-%d")
strftime(dt) == Pad(dt.year, 4) \o "-" \o Pad(dt.month, 2) \o "-" \o Pad(dt.day, 2)

\* a faulty year test: one year too many at each end
YearAccepted_one_wider(y) == YearMin - 1 <= y /\ y <= YearMax + 1

\* the year test of clean_and_validate_date
YearAccepted(y) == YearMin <= y /\ y <= YearMax

RECURSIVE TryFormats(_, _)
\* the loop over manual_formats from format k on
TryFormats(cleaned, k) ==
    IF k > Len(manual_formats) THEN None
    ELSE With(strptime(cleaned, manual_formats[k]), LAMBDA parsed_date :
             IF parsed_date # None /\ YearAccepted(parsed_date[1].year)
             THEN Some(strftime(parsed_date[1]))
             ELSE TryFormats(cleaned, k + 1))

clean_and_validate_date(date_string) ==
    IF date_string = "" THEN None
    ELSE With(Strip(date_string), LAMBDA cleaned : TryFormats(cleaned, 1))

RECURSIVE FirstValidDate(_, _)
\* `for match in matches`: the first cleaned match that is not None
FirstValidDate(matches, i) ==
    IF i > Len(matches) THEN None
    ELSE With(clean_and_validate_date(matches[i]), LAMBDA cleaned_date :
             IF cleaned_date # None THEN cleaned_date ELSE FirstValidDate(matches, i + 1))

RECURSIVE DateCascade(_, _)
\* `for pattern in date_patterns` from pattern k on
DateCascade(full_text, k) ==
    IF k > Len(date_patterns) THEN None
    ELSE With(FirstValidDate(FindAll(date_patterns[k], 1, Len(date_patterns[k]), full_text),
                             1),
              LAMBDA cleaned_date :
                  IF cleaned_date # None THEN cleaned_date
                  ELSE DateCascade(full_text, k + 1))

extract_dates_from_text(full_text) == DateCascade(full_text, 1)

(***************************************************************************)
(* extractors.py: the PIN cascade                                          *)
(***************************************************************************)
PinMinLen == 8
PinMaxLen == 15

Alnum == Letters \cup Digits
OptSpaces == Rep(Spaces, 0, Inf)
OptColon == Rep({":", "-"}, 0, 1)
PinBody == Rep(Alnum, 8, 15)

\* the five patterns (re.IGNORECASE), each with the items of its group
pin_patterns == <<
    [pat |-> <<AnyCase("P"), AnyCase("I"), AnyCase("N"), OptSpaces, OptColon, OptSpaces,
               PinBody>>, g1 |-> 7, g2 |-> 7],
    [pat |-> <<AnyCase("P"), AnyCase("I"), AnyCase("N"), One({"/"}), AnyCase("V"),
               AnyCase("A"), AnyCase("T"), OptSpaces, OptColon, OptSpaces, PinBody>>,
     g1 |-> 11, g2 |-> 11],
    [pat |-> <<AnyCase("P"), AnyCase("I"), AnyCase("N"), OptSpaces, AnyCase("N"),
               AnyCase("O"), OptSpaces, OptColon, OptSpaces, PinBody>>,
     g1 |-> 10, g2 |-> 10],
    [pat |-> <<NotAfterWord, One(Letters), Rep(Digits, 8, 8), One(Letters), NotBeforeWord>>,
     g1 |-> 2, g2 |-> 4],
    [pat |-> <<NotAfterWord, AnyCase("P"), Rep(Digits, 9, 9), One(Letters), NotBeforeWord>>,
     g1 |-> 2, g2 |-> 4] >>

\* the three shapes of clean_and_validate_pin (on upper-cased text)
pin_shapes == <<
    <<One(Uppers), Rep(Digits, 8, 10), Rep(Uppers, 0, 1)>>,
    <<One({"P"}), Rep(Digits, 9, 10), Rep(Uppers, 0, 1)>>,
    <<Rep(Digits, 8, 11)>> >>

\* the length test of clean_and_validate_pin
PinLengthOk(cleaned) == ~(Len(cleaned) < PinMinLen \/ Len(cleaned) > PinMaxLen)

\* a faulty validation: the length is tested, the shape is not
clean_and_validate_pin_any_shape(pin_string) ==
    IF pin_string = "" THEN None
    ELSE With(DropChars(Upper(Strip(pin_string)), Spaces \cup {"-", "."}, 1),
              LAMBDA cleaned : IF ~PinLengthOk(cleaned) THEN None ELSE Some(cleaned))

clean_and_validate_pin(pin_string) ==
    IF pin_string = "" THEN None
    ELSE With(DropChars(Upper(Strip(pin_string)), Spaces \cup {"-", "."}, 1),
              LAMBDA cleaned :
                  IF ~PinLengthOk(cleaned) THEN None
                  ELSE IF \E k \in 1..Len(pin_shapes) : FullMatch(pin_shapes[k], cleaned)
                       THEN Some(cleaned) ELSE None)

RECURSIVE FirstValidPin(_, _)
\* `for match in matches`: the first cleaned match that is not None
FirstValidPin(matches, i) ==
    IF i > Len(matches) THEN None
    ELSE With(clean_and_validate_pin(matches[i]), LAMBDA cleaned_pin :
             IF cleaned_pin # None THEN cleaned_pin ELSE FirstValidPin(matches, i + 1))

RECURSIVE PinCascade(_, _)
\* `for pattern in pin_patterns` from pattern k on
PinCascade(full_text, k) ==
    IF k > Len(pin_patterns) THEN None
    ELSE With(FirstValidPin(FindAll(pin_patterns[k].pat, pin_patterns[k].g1,
                                    pin_patterns[k].g2, full_text), 1),
              LAMBDA cleaned_pin :
                  IF cleaned_pin # None THEN cleaned_pin
                  ELSE PinCascade(full_text, k + 1))

extract_pin_from_text(full_text) == PinCascade(full_text, 1)

(***************************************************************************)
(* ml_classifier.py: the aggregator.  json_data is a function from the     *)
(* keys it holds to their values.                                          *)
(***************************************************************************)
AllNone == [total_amount |-> None, vat_amount |-> None, date |-> None, pin |-> None]

\* dict.get(key, default)
Get(d, key, default) == IF key \in DOMAIN d THEN d[key] ELSE default

\* "# Extract fields" and "# Extract VAT", then the return of the record
extract_fields(layout_data, full_text) ==
    Outcome(FALSE,
            [total_amount |-> extract_total_with_regex(layout_data, full_text),
             vat_amount |-> extract_vat_with_regex(layout_data, full_text,
                                                   extract_all_amounts(layout_data)),
             date |-> extract_dates_from_text(full_text),
             pin |-> extract_pin_from_text(full_text)],
            layout_data, full_text)

\* "# Create layout data" and what follows it; raises when normalize_y does
create_layout(texts, polys) ==
    IF ZipLayoutRaises(texts, polys) THEN Outcome(TRUE, AllNone, <<>>, "")
    ELSE With(SortByY(ZipLayout(texts, polys, 1)), LAMBDA layout_data :
             With(FullText(layout_data), LAMBDA full_text :
                 extract_fields(layout_data, full_text)))

\* the try block of predict_all_fields
try_block(json_data) ==
    With(<<Get(json_data, "rec_texts", <<>>),
           Get(json_data, "dt_polys", Get(json_data, "text_det_polys", <<>>))>>,
         LAMBDA tp :
             IF tp[1] = <<>> \/ tp[2] = <<>> THEN Outcome(FALSE, AllNone, <<>>, "")
             ELSE create_layout(tp[1], tp[2]))

\* a faulty handler: the exception goes on to the caller
except_block_reraise(r) == r

\* `except Exception`: the all-None record is returned, nothing is raised
except_block(r) == IF r.exc THEN Outcome(FALSE, AllNone, <<>>, "") ELSE r

predict_all_fields(json_data) ==
    With(try_block(json_data), LAMBDA r : except_block(r))

(***************************************************************************)
(* The operations, each applied once to an input                           *)
(***************************************************************************)
Leaves(o) == /\ pc = "call"
             /\ pc' = "done"
             /\ out' = o
             /\ UNCHANGED <<op, arg>>

\* a pure function returns its value and raises nothing
Value(v) == Outcome(FALSE, v, <<>>, "")

Call_predict_all_fields ==
    op = "predict_all_fields" /\ Leaves(predict_all_fields(arg))

\* the two resolvers, called on a layout and its full text
Call_extract_total_with_regex ==
    /\ op = "extract_total_with_regex"
    /\ Leaves(Value(extract_total_with_regex(arg.layout_data, arg.full_text)))

Call_extract_vat_with_regex ==
    /\ op = "extract_vat_with_regex"
    /\ Leaves(Value(extract_vat_with_regex(arg.layout_data, arg.full_text,
                                           extract_all_amounts(arg.layout_data))))

Call_extract_dates_from_text ==
    op = "extract_dates_from_text" /\ Leaves(Value(extract_dates_from_text(arg)))

Call_extract_pin_from_text ==
    op = "extract_pin_from_text" /\ Leaves(Value(extract_pin_from_text(arg)))

Call_clean_amount ==
    op = "clean_amount" /\ Leaves(Value(clean_amount(arg)))

\* before the call: nothing built, nothing returned
Start(o, inputs) ==
    /\ op = o
    /\ arg \in inputs
    /\ pc = "call"
    /\ out = Value(None)

\* the sequences over S of length lo..hi
SeqsOf(S, lo, hi) == UNION {[1..n -> S] : n \in lo..hi}

(***************************************************************************)
(* Inputs of predict_all_fields: OCR records                               *)
(***************************************************************************)
\* up to MaxFrags texts and, independently, up to MaxFrags polygons: empty
\* and blank texts, empty polygons, polygons of equal and of fractional
\* mean y, and a polygon whose point lacks its y coordinate
MaxFrags == 2
FragTexts == {"", " ", "TOTAL ", "12.50"}
BadPoly == << <<0>> >>
FragPolys == {<<>>, << <<0, 1>> >>, << <<0, 0>>, <<0, 2>> >>, << <<0, 0>>, <<0, 1>> >>, BadPoly}

\* a receipt given as its lines << text, y >>
DocOfLines(lines) ==
    [rec_texts |-> [i \in 1..Len(lines) |-> lines[i][1]],
     dt_polys |-> [i \in 1..Len(lines) |-> <<<<0, lines[i][2]>>>>]]

ScenarioTotalDue ==
    DocOfLines(<< <<"TOTAL DUE", 50>>, <<"Thank you", 51>>, <<"KES 1,250.00", 60>> >>)
ScenarioTotal == DocOfLines(<< <<"TOTAL", 100>>, <<"450.00", 101>> >>)

JsonDocs ==
    {[rec_texts |-> t, dt_polys |-> p] :
        t \in SeqsOf(FragTexts, 0, MaxFrags), p \in SeqsOf(FragPolys, 0, MaxFrags)}
    \cup {[rec_texts |-> t, text_det_polys |-> p] :
        t \in SeqsOf(FragTexts, 0, MaxFrags), p \in SeqsOf(FragPolys, 0, MaxFrags)}
    \cup {[rec_texts |-> t] : t \in SeqsOf(FragTexts, 0, MaxFrags)}
    \cup {[dt_polys |-> p] : p \in SeqsOf(FragPolys, 0, MaxFrags)}
    \cup {ScenarioTotalDue, ScenarioTotal}

Init == Start("predict_all_fields", JsonDocs)
Next == Call_predict_all_fields
Spec == Init /\ [][Next]_vars

(***************************************************************************)
(* Inputs of the resolvers: layouts as predict_all_fields builds them      *)
(***************************************************************************)
\* receipts of up to MaxLines fragments, each a text of ReceiptTexts on a
\* one-point polygon; a fragment lies a gap of YGaps below the one before
\* it, the first one a gap below -YTop
MaxLines == 3
ReceiptTexts == {"TOTAL DUE", "VAT", "KES 1,250.00", "450.00", "5.00"}
YGaps == {3, 5}
YTop == 6

RECURSIVE YAt(_, _)
YAt(c, i) == IF i = 0 THEN 0 - YTop ELSE YAt(c, i - 1) + c[i][2]

ReceiptLines(c) == [i \in 1..Len(c) |-> <<c[i][1], YAt(c, i)>>]

\* layout_data and full_text as lines 105-112 build them from json_data
LayoutOf(json_data) ==
    With(SortByY(ZipLayout(json_data.rec_texts, json_data.dt_polys, 1)),
         LAMBDA layout_data :
             [layout_data |-> layout_data, full_text |-> FullText(layout_data)])

Layouts ==
    {LayoutOf(DocOfLines(ReceiptLines(c))) : c \in SeqsOf(ReceiptTexts \X YGaps, 0, MaxLines)}
    \cup {LayoutOf(ScenarioTotalDue), LayoutOf(ScenarioTotal)}

InitResolve ==
    \/ Start("extract_total_with_regex", Layouts)
    \/ Start("extract_vat_with_regex", Layouts)
NextResolve == Call_extract_total_with_regex \/ Call_extract_vat_with_regex
SpecResolve == InitResolve /\ [][NextResolve]_vars

(***************************************************************************)
(* Inputs of extract_dates_from_text: one date in one of the shapes the    *)
(* patterns look for, after an optional label and before an optional      *)
(* second date                                                             *)
(***************************************************************************)
\* the years run from YearPad before the accepted range to YearPad after it
YearPad == 1
Years == (YearMin - YearPad)..(YearMax + YearPad)
\* << DD, MM >>: 29 February exists in leap years only; 01/13 is a date
\* only when read month first, and month 13 is written with names that
\* are no month's
DayMonths == {<<"15", "08">>, <<"29", "02">>, <<"31", "12">>, <<"01", "13">>}
MonthOf == [m \in {"08", "02", "12", "13"} |->
              CASE m = "08" -> <<"Aug", "August">>
                [] m = "02" -> <<"Feb", "February">>
                [] m = "12" -> <<"Dec", "December">>
                [] m = "13" -> <<"Sept", "Sol">>]
DateShapes == {"Y-M-D", "D/M/Y", "D.M.Y", "D Mon Y", "DMonY", "Month D Y", "Month D, Y", "D/M/YY"}
DateLabels == {"", "Date: "}
SecondDates == {"", " 2024-01-05"}

DateIn(shape, y, dm) ==
    CASE shape = "Y-M-D" -> Pad(y, 4) \o "-" \o dm[2] \o "-" \o dm[1]
      [] shape = "D/M/Y" -> dm[1] \o "/" \o dm[2] \o "/" \o Pad(y, 4)
      [] shape = "D.M.Y" -> dm[1] \o "." \o dm[2] \o "." \o Pad(y, 4)
      [] shape = "D Mon Y" -> dm[1] \o " " \o MonthOf[dm[2]][1] \o " " \o Pad(y, 4)
      [] shape = "DMonY" -> dm[1] \o MonthOf[dm[2]][1] \o Pad(y, 4)
      [] shape = "Month D Y" -> MonthOf[dm[2]][2] \o " " \o dm[1] \o " " \o Pad(y, 4)
      [] shape = "Month D, Y" -> MonthOf[dm[2]][2] \o " " \o dm[1] \o ", " \o Pad(y, 4)
      [] shape = "D/M/YY" -> dm[1] \o "/" \o dm[2] \o "/" \o Pad(y % 100, 2)

DateTexts(years, seconds) ==
    {label \o DateIn(shape, y, dm) \o second :
        label \in DateLabels, shape \in DateShapes, y \in years, dm \in DayMonths,
        second \in seconds}

InitDate == Start("extract_dates_from_text", DateTexts(Years, SecondDates))
NextDate == Call_extract_dates_from_text
SpecDate == InitDate /\ [][NextDate]_vars

(***************************************************************************)
(* Inputs of extract_pin_from_text: a label, a candidate made of a letter  *)
(* or none, digits and a letter or none, and an optional second candidate  *)
(***************************************************************************)
\* a candidate has up to MaxPinDigits digits, and no fewer than one less
\* than the shortest PIN
MaxPinDigits == 13
PinDigits == "0512345678901234567890"
PinLabels == {"", "PIN: ", "pin/vat-", "Pin No ", "KRA "}
PinLeads == {"", "P", "a"}
PinTrails == {"", "K"}
SecondPins == {"", " PIN: P051234567K", " a12345678b"}

PinTexts ==
    {label \o lead \o SubSeq(PinDigits, 1, n) \o trail \o second :
        label \in PinLabels, lead \in PinLeads, n \in (PinMinLen - 1)..MaxPinDigits,
        trail \in PinTrails, second \in SecondPins}

InitPin == Start("extract_pin_from_text", PinTexts)
NextPin == Call_extract_pin_from_text
SpecPin == InitPin /\ [][NextPin]_vars

(***************************************************************************)
(* Inputs of clean_amount: strings of the grammar digits, period, two      *)
(* digits, from below the accepted range to above it, and other strings    *)
(***************************************************************************)
\* the integer part: an optional leading zero, a digit, up to MaxZeros
\* zeros and an optional last digit
MaxZeros == 6
RECURSIVE Zeros(_)
Zeros(k) == IF k = 0 THEN "" ELSE "0" \o Zeros(k - 1)

GrammarTexts ==
    {lead \o first \o Zeros(k) \o last \o "." \o frac :
        lead \in {"", "0"}, first \in {"0", "1", "5", "9"}, k \in 0..MaxZeros,
        last \in {"", "1"}, frac \in {"00", "01", "50", "99"}}
OtherTexts == {"", "KES 1,250.00", "1.234.56", "12.5", "450", "12.50.", "n/a", "."}

InitAmount == Start("clean_amount", GrammarTexts \cup OtherTexts)
NextAmount == Call_clean_amount
SpecAmount == InitAmount /\ [][NextAmount]_vars

(***************************************************************************)
(* Properties of keyword resolution (under SpecResolve).  They are stated  *)
(* on sets: the values of the pool's candidates near a y_position, and the *)
(* keyword lines that have such candidates.                                *)
(***************************************************************************)
\* the pools the resolvers draw from, for the layout given to the operation
GeneralPool == extract_all_amounts(arg.layout_data)
TaxPool == extract_all_tax_amounts(arg.layout_data)

\* |a - b| < d on y_positions
Closer(a, b, d) == -(d * a.n * b.n) < a.s * b.n - b.s * a.n /\ a.s * b.n - b.s * a.n < d * a.n * b.n

\* the values of the candidates of pool less than 5 away from y
ValuesNear(pool, y) == {pool[j].amount : j \in {k \in 1..Len(pool) : Closer(pool[k].y_pos, y, 5)}}

Largest(S) == CHOOSE a \in S : \A b \in S : DecLeq(b, a)

\* the lines of L whose upper-cased text contains one of the keywords
KeywordLines(L, keywords) ==
    {i \in 1..Len(L) : \E w \in keywords : Contains(Upper(L[i].text), w)}

\* the keyword lines that have a candidate near themselves or near the
\* line that follows them
Resolving(L, pool, keywords) ==
    {i \in KeywordLines(L, keywords) :
        \/ ValuesNear(pool, L[i].y_pos) # {}
        \/ i < Len(L) /\ ValuesNear(pool, L[i + 1].y_pos) # {}}

\* what keyword line i of Resolving resolves to: same line before next line
ResolvedAt(L, pool, i) ==
    IF ValuesNear(pool, L[i].y_pos) # {} THEN Largest(ValuesNear(pool, L[i].y_pos))
    ELSE Largest(ValuesNear(pool, L[i + 1].y_pos))

First(S) == CHOOSE i \in S : \A j \in S : i <= j

TotalWords == {"TOTAL", "AMOUNT DUE", "AMOUNT PAYABLE", "GRAND TOTAL", "BALANCE", "TOT"}
VatWords == {"VAT", "TAX", "GST"}

\* the operation's result is the value of the first line of `resolving`
FirstWins(pool, resolving) ==
    resolving # {} => ret = Some(ResolvedAt(arg.layout_data, pool, First(resolving)))

\* the operation's result is the value of the first resolving keyword line
FirstResolvingWins(pool, keywords) ==
    FirstWins(pool, Resolving(arg.layout_data, pool, keywords))

\* C2: keyword resolution, for the total and for the VAT, returns the largest
\* candidate near the first keyword line (in document order) that has a
\* candidate less than 5 y-units from itself or, failing that, from the
\* line after it; keyword lines with neither are passed over.  The layout
\* TOTAL (y 100), 450.00 (y 101) resolves to 450.00.
C2_FirstResolvingKeywordLine ==
    pc = "done" =>
        /\ op = "extract_total_with_regex" => FirstResolvingWins(GeneralPool, TotalWords)
        /\ op = "extract_vat_with_regex" => FirstResolvingWins(TaxPool, VatWords)
        /\ (op = "extract_total_with_regex" /\ arg = LayoutOf(ScenarioTotal))
               => ret = Some(DecInt(450))

\* C2's case: the first keyword line has no candidate on either line, and a
\* later keyword line resolves through the line after it
C2_Witness ==
    /\ pc = "done" /\ op = "extract_total_with_regex"
    /\ Resolving(arg.layout_data, GeneralPool, TotalWords) # {}
    /\ LET i == First(Resolving(arg.layout_data, GeneralPool, TotalWords))
       IN  /\ i > First(KeywordLines(arg.layout_data, TotalWords))
           /\ ValuesNear(GeneralPool, arg.layout_data[i].y_pos) = {}
           /\ ret = Some(Largest(ValuesNear(GeneralPool, arg.layout_data[i + 1].y_pos)))

\* C4: the VAT resolver returns a value only when a VAT, TAX or GST line has
\* a tax candidate near itself or near the line after it; otherwise, also
\* with a non-empty tax pool, it returns None
C4_VatOnlyByKeyword ==
    (pc = "done" /\ op = "extract_vat_with_regex") =>
        (Resolving(arg.layout_data, TaxPool, VatWords) = {} => ret = None)

\* C4's case: tax candidates, no keyword line, no VAT
C4_Witness ==
    /\ pc = "done" /\ op = "extract_vat_with_regex"
    /\ TaxPool # <<>>
    /\ KeywordLines(arg.layout_data, VatWords) = {}
    /\ ret = None

\* the values of the candidates whose y exceeds half of the pool's largest y
BottomHalf(pool) ==
    {pool[j].amount : j \in {k \in 1..Len(pool) :
        \A m \in 1..Len(pool) : 2 * pool[k].y_pos.s * pool[m].y_pos.n
                                    > pool[m].y_pos.s * pool[k].y_pos.n}}
AllValues(pool) == {pool[j].amount : j \in 1..Len(pool)}

\* C5: with no resolving total-keyword line and a non-empty general pool the
\* total is the largest candidate of the bottom half (y_position above half
\* of the pool's largest y_position), or the largest of the whole pool when
\* the bottom half is empty, which needs a largest y_position <= 0; the
\* total is None exactly when the general pool is empty
FallbackOn(pool, bottom) ==
    /\ ret = None <=> pool = <<>>
    /\ (pool # <<>> /\ Resolving(arg.layout_data, pool, TotalWords) = {}) =>
          /\ bottom # {} => ret = Some(Largest(bottom))
          /\ bottom = {} =>
                /\ ret = Some(Largest(AllValues(pool)))
                /\ \A j \in 1..Len(pool) : pool[j].y_pos.s <= 0

C5_BottomHalfFallback ==
    (pc = "done" /\ op = "extract_total_with_regex") =>
        FallbackOn(GeneralPool, BottomHalf(GeneralPool))

\* C5's case: the fallback leaves out a larger amount of the top half
C5_Witness ==
    /\ pc = "done" /\ op = "extract_total_with_regex"
    /\ GeneralPool # <<>>
    /\ Resolving(arg.layout_data, GeneralPool, TotalWords) = {}
    /\ BottomHalf(GeneralPool) # {}
    /\ ret = Some(Largest(BottomHalf(GeneralPool)))
    /\ Largest(BottomHalf(GeneralPool)) # Largest(AllValues(GeneralPool))

(***************************************************************************)
(* Properties of predict_all_fields (under Spec), stated on its input: the *)
(* texts and polygons of the record, paired by position.                   *)
(***************************************************************************)
InTexts == IF "rec_texts" \in DOMAIN arg THEN arg.rec_texts ELSE <<>>
InPolys == IF "dt_polys" \in DOMAIN arg THEN arg.dt_polys
           ELSE IF "text_det_polys" \in DOMAIN arg THEN arg.text_det_polys ELSE <<>>

\* the positions that hold both a text and a polygon, neither of them empty
KeptPairs ==
    {i \in 1..Len(InTexts) : i <= Len(InPolys) /\ InTexts[i] # "" /\ InPolys[i] # <<>>}

\* a kept polygon has a point without a y coordinate
Malformed == \E i \in KeptPairs : \E p \in 1..Len(InPolys[i]) : Len(InPolys[i][p]) < 2

FourFields == {"total_amount", "vat_amount", "date", "pin"}

\* C1: predict_all_fields raises nothing and returns a record of the four
\* fields; the four are None when the texts or the polygons are missing or
\* empty, and when the extraction fails on a malformed polygon point
C1_NeverRaises ==
    pc = "done" =>
        /\ ~raised
        /\ DOMAIN ret = FourFields
        /\ (InTexts = <<>> \/ InPolys = <<>> \/ Malformed) =>
               \A f \in FourFields : ret[f] = None

\* C1's case: a malformed point among non-empty texts and polygons
C1_Witness ==
    /\ pc = "done"
    /\ InTexts # <<>> /\ InPolys # <<>> /\ Malformed
    /\ ~raised
    /\ \A f \in FourFields : ret[f] = None

\* C3: the receipt TOTAL DUE (y 50), Thank you (y 51), KES 1,250.00 (y 60)
\* has total 1250.00, found by the bottom-half fallback, and no VAT
C3_ThousandsSeparatorTotal ==
    (pc = "done" /\ arg = ScenarioTotalDue) =>
        /\ ret.total_amount = Some(DecInt(1250))
        /\ ret.vat_amount = None

RECURSIVE SumOfY(_, _)
\* the sum of the y coordinates of the first n points of poly
SumOfY(poly, n) == IF n = 0 THEN 0 ELSE SumOfY(poly, n - 1) + poly[n][2]

\* fragment j comes before fragment i: a smaller mean y, or the same mean y
\* and an earlier position in the input
Before(j, i) ==
    LET yj == SumOfY(InPolys[j], Len(InPolys[j])) * Len(InPolys[i])
        yi == SumOfY(InPolys[i], Len(InPolys[i])) * Len(InPolys[j])
    IN  yj < yi \/ (yj = yi /\ j < i)

\* the place of kept fragment i in the layout
Rank(i) == 1 + Cardinality({j \in KeptPairs : Before(j, i)})

RECURSIVE JoinedTexts(_)
\* the texts of the first k layout lines, joined by single spaces
JoinedTexts(k) ==
    IF k = 0 THEN ""
    ELSE IF k = 1 THEN layout[1].text
    ELSE JoinedTexts(k - 1) \o " " \o layout[k].text

\* C6: the layout holds exactly the positional pairs with a non-empty text
\* and a non-empty polygon, each with the mean of its polygon's y
\* coordinates as y_position, in ascending y_position, pairs of equal
\* y_position in input order; the full text is the layout's texts joined
\* by spaces in that order
C6_StableLayout ==
    (pc = "done" /\ InTexts # <<>> /\ InPolys # <<>> /\ ~Malformed) =>
        /\ Len(layout) = Cardinality(KeptPairs)
        /\ \A i \in KeptPairs :
              /\ layout[Rank(i)].text = Strip(InTexts[i])
              /\ layout[Rank(i)].poly = InPolys[i]
              /\ layout[Rank(i)].y_pos.s * Len(InPolys[i])
                     = SumOfY(InPolys[i], Len(InPolys[i])) * layout[Rank(i)].y_pos.n
        /\ fulltext = JoinedTexts(Len(layout))

\* C6's case: two kept fragments of different text and polygon with the
\* same y_position stay in input order
C6_Witness ==
    /\ pc = "done" /\ ~Malformed
    /\ \E i, j \in KeptPairs :
          /\ i < j /\ ~Before(j, i) /\ Rank(j) = Rank(i) + 1
          /\ SumOfY(InPolys[j], Len(InPolys[j])) * Len(InPolys[i])
                 = SumOfY(InPolys[i], Len(InPolys[i])) * Len(InPolys[j])
          /\ InTexts[i] # InTexts[j] /\ InPolys[i] # InPolys[j]
          /\ Strip(InTexts[i]) # "" /\ Strip(InTexts[j]) # ""
          /\ layout[Rank(i)].text = Strip(InTexts[i])
          /\ layout[Rank(j)].text = Strip(InTexts[j])
    /\ fulltext = JoinedTexts(Len(layout))

\* C7: every layout line has a non-empty text and a non-empty polygon
C7_NoEmptyLine ==
    pc = "done" =>
        \A k \in 1..Len(layout) : layout[k].text # "" /\ layout[k].poly # <<>>

(***************************************************************************)
(* Properties of the date cascade (under SpecDate)                         *)
(***************************************************************************)
\* s is YYYY-MM-DD with a year of 2020..2030
IsoDateInRange(s) ==
    /\ Len(s) = 10
    /\ \A i \in {1, 2, 3, 4, 6, 7, 9, 10} : Ch(s, i) \in Digits
    /\ Ch(s, 5) = "-" /\ Ch(s, 8) = "-"
    /\ DigitsToInt(SubSeq(s, 1, 4), 1, 0) \in 2020..2030

\* the texts whose only date is of a year outside 2020..2030
OutOfRangeTexts == DateTexts(Years \ (2020..2030), {""})

\* C8: extract_dates_from_text returns None or a YYYY-MM-DD string with a
\* year in [2020, 2030]; a text whose only date has a year outside that
\* range yields None, whatever pattern matched it
C8_YearWindow ==
    pc = "done" =>
        /\ ret = None \/ IsoDateInRange(ret[1])
        /\ arg \in OutOfRangeTexts => ret = None

\* C8's case: a pattern matched a date that parses, of a year out of range
C8_Witness ==
    /\ pc = "done" /\ arg \in OutOfRangeTexts /\ ret = None
    /\ \E k \in 1..Len(date_patterns) :
          LET matches == FindAll(date_patterns[k], 1, Len(date_patterns[k]), arg)
          IN  \E i \in 1..Len(matches) : \E f \in 1..Len(manual_formats) :
                  /\ strptime(matches[i], manual_formats[f]) # None
                  /\ strptime(matches[i], manual_formats[f])[1].year \notin 2020..2030

\* << DD, MM >> is a day of year y
RealDay(y, dm) ==
    \/ dm \in {<<"15", "08">>, <<"31", "12">>}
    \/ dm = <<"29", "02">> /\ ((y % 4 = 0 /\ y % 100 # 0) \/ y % 400 = 0)

\* C11: a text whose only date is a real calendar date of a year in
\* [2020, 2030], written in a shape that one of the five patterns matches,
\* yields that date as YYYY-MM-DD; so do the month name before the day with
\* a comma ("August 15, 2024"), the day, month name and year written
\* together ("15Aug2024") and the two-digit year ("15/08/24")
C11_EveryMatchedDateParsed ==
    pc = "done" =>
        \A label \in DateLabels, shape \in DateShapes, y \in 2020..2030, dm \in DayMonths :
            (RealDay(y, dm) /\ arg = label \o DateIn(shape, y, dm)) =>
                ret = Some(Pad(y, 4) \o "-" \o dm[2] \o "-" \o dm[1])

(***************************************************************************)
(* Properties of the PIN cascade (under SpecPin)                           *)
(***************************************************************************)
RECURSIVE PinMatches(_)
\* the matches of patterns 1..k in arg: pattern by pattern, left to right
PinMatches(k) ==
    IF k = 0 THEN <<>>
    ELSE PinMatches(k - 1) \o
         FindAll(pin_patterns[k].pat, pin_patterns[k].g1, pin_patterns[k].g2, arg)

\* upper-cased, without hyphens, spaces and periods
Normalized(m) == Upper(DropChars(m, {"-", " ", "."}, 1))

AllDigits(s) == \A i \in 1..Len(s) : Ch(s, i) \in Digits

\* first character of `firsts`, then lo..hi digits, then a letter or nothing
LetterDigitsShape(c, firsts, lo, hi) ==
    /\ Ch(c, 1) \in firsts
    /\ \/ Len(c) - 1 \in lo..hi /\ AllDigits(SubSeq(c, 2, Len(c)))
       \/ /\ Len(c) - 2 \in lo..hi /\ AllDigits(SubSeq(c, 2, Len(c) - 1))
          /\ Ch(c, Len(c)) \in Uppers

ValidPin(c) ==
    /\ Len(c) \in 8..15
    /\ \/ LetterDigitsShape(c, Uppers, 8, 10)
       \/ LetterDigitsShape(c, {"P"}, 9, 10)
       \/ Len(c) \in 8..11 /\ AllDigits(c)

\* the places of the valid matches among PinMatches(5)
ValidPlaces == {i \in 1..Len(PinMatches(5)) : ValidPin(Normalized(PinMatches(5)[i]))}

InGrammar(s) ==
    /\ Len(s) >= 4 /\ Ch(s, Len(s) - 2) = "."
    /\ AllDigits(SubSeq(s, 1, Len(s) - 3)) /\ AllDigits(SubSeq(s, Len(s) - 1, Len(s)))

\* the value a string of the grammar denotes
GrammarValue(s) ==
    Dec(DigitsToInt(SubSeq(s, 1, Len(s) - 3), 1, 0),
        DigitsToInt(SubSeq(s, Len(s) - 1, Len(s)), 1, 0), 2)

RECURSIVE Decimal(_)
\* n >= 0 in decimal digits, without leading zeros
Decimal(n) == IF n < 10 THEN DigitSeq[n + 1] ELSE Decimal(n \div 10) \o DigitSeq[(n % 10) + 1]

\* a value of at most two fraction digits written with two fraction digits
TwoPlaces(a) == Decimal(a.i) \o "." \o Pad(a.f * Pow10(2 - a.e), 2)

\* the value is returned, and returned again for its two-digit rendering
RoundTrips(s) ==
    /\ ret = Some(GrammarValue(s))
    /\ clean_amount(TwoPlaces(ret[1])) = ret

\* C10 as stated: every string of the grammar digits, period, two digits is
\* cleaned to the value it denotes, and cleaning the two-digit rendering of
\* the result gives the result again
C10_RoundTripAll ==
    (pc = "done" /\ InGrammar(arg)) => RoundTrips(arg)

\* C10, amended: a string of the grammar whose value lies in [1, 5000000] is
\* cleaned to the value it denotes, and cleaning the two-digit rendering of
\* the result gives the result again; a string of the grammar whose value
\* lies outside [1, 5000000] is cleaned to None
C10_RoundTripInRange ==
    (pc = "done" /\ InGrammar(arg)) =>
        IF /\ DecLeq(DecInt(1), GrammarValue(arg))
           /\ DecLeq(GrammarValue(arg), DecInt(5000000))
        THEN RoundTrips(arg)
        ELSE ret = None

\* C10's case: a string of the grammar, written otherwise than its value's
\* two-digit rendering, round-trips
C10_Witness ==
    /\ pc = "done" /\ InGrammar(arg)
    /\ RoundTrips(arg)
    /\ TwoPlaces(ret[1]) # arg
    /\ ret[1].f # 0
====
